---- MODULE Spec2Model ----
(***************************************************************************)
(* The PDBe Aggregated API example notebook (example.ipynb), run top to    *)
(* bottom: three fetches (get_data / parse_data) and three filtering       *)
(* stages over the decoded documents.                                      *)
(*                                                                         *)
(* A Python dict is a TLA+ record (a function on strings), so a missing    *)
(* key is a string outside DOMAIN.  A Python list is a sequence.  A name   *)
(* that is not bound yet is <<>>, a bound name is <<value>>.  An           *)
(* exception is a value of `raised` other than NoError; it ends the cell   *)
(* that raised it and the run.                                             *)
(***************************************************************************)
EXTENDS Integers, Sequences, FiniteSets, TLC

VARIABLES pc, failure, http_log, stdout,
          annotations_data, all_predicted_ligand_binding_residues,
          interactions_data, interaction_partner_names,
          interface_residues_with_hirudin,
          ligands_data, ligand_list

vars == <<pc, failure, http_log, stdout,
          annotations_data, all_predicted_ligand_binding_residues,
          interactions_data, interaction_partner_names,
          interface_residues_with_hirudin,
          ligands_data, ligand_list>>

---------------------------------------------------------------------------
(* Bounds of the exhaustively enumerated inputs of the three stages.       *)
MaxRecords == 2
MaxResidues == 2

(* Bound of the documents a full run can be served.                        *)
RunMaxRecords == 2

---------------------------------------------------------------------------
(* Constants of cell 2 and the literals of the stages.                     *)
ACCESSION == "P00734"
ANNOTATIONS_URL == "https://www.ebi.ac.uk/pdbe/graph-api/uniprot/annotations/P00734"
INTERACTIONS_URL == "https://www.ebi.ac.uk/pdbe/graph-api/uniprot/interface_residues/P00734"
LIGANDS_URL == "https://www.ebi.ac.uk/pdbe/graph-api/uniprot/ligand_sites/P00734"

(* The allowlist with its second provider forgotten.                       *)
ProviderAllowlistFirstOnly == <<"p2rank">>
ProviderAllowlist == <<"p2rank", "cansar">>
PartnerName == "Hirudin variant-1"
StatusOK == 200

(* Exceptions.                                                             *)
NoError == "none"
KeyError == "KeyError"
NameError == "NameError: name 'Error' is not defined"
AttributeError == "AttributeError: 'NoneType' object has no attribute 'status_code'"
ValueError == "ValueError: No data received"
JSONDecodeError == "JSONDecodeError"

(* The names an except clause of get_data can resolve: the builtins and    *)
(* the one import of cell 1.                                               *)
ResolvableNames == {"Exception", "ValueError", "KeyError", "OSError",
                    "ConnectionError", "requests"}

---------------------------------------------------------------------------
(* Python helpers.                                                         *)
HasKey(d, k) == k \in DOMAIN d

(* A membership test that counts: true of a value that occurs once.        *)
InListOnce(v, lst) == Cardinality({k \in 1..Len(lst) : lst[k] = v}) = 1

(* `v in lst` for a list: a scan for an equal element.                     *)
InList(v, lst) == \E k \in 1..Len(lst) : lst[k] = v

Returned(v) == [raised |-> NoError, val |-> v]
Raised(e, v) == [raised |-> e, val |-> v]

SeqsUpTo(S, n) == UNION {[1..k -> S] : k \in 0..n}
Range(s) == {s[k] : k \in 1..Len(s)}

---------------------------------------------------------------------------
(* Cell 3: the helper functions.                                           *)

(* get_data(accession, url).  `net` is what requests.get(url) does: it     *)
(* returns a response, or raises a transport exception.  The handler is    *)
(* `except Error as err`: evaluating the name Error comes first, and an    *)
(* unbound name raises NameError in place of the handler's body.  With     *)
(* the name bound, the handler prints and the function returns None.       *)
get_data(accession, url, net) ==
    IF net.kind = "response"
    THEN [raised |-> NoError, printed |-> <<>>,
          ret |-> <<[status_code |-> net.status_code, body |-> net.body]>>]
    ELSE IF "Error" \in ResolvableNames
         THEN [raised |-> NoError, ret |-> <<>>,
               printed |-> <<[cell |-> "get_data",
                              text |-> "There was an error while retrieving the data"]>>]
         ELSE [raised |-> NameError, printed |-> <<>>, ret |-> <<>>]

(* Response.json(): the decoded document of a JSON body; a body that is    *)
(* not JSON (<<>>) raises.                                                 *)
json(response) ==
    IF response.body = <<>> THEN Raised(JSONDecodeError, <<>>)
    ELSE Returned(response.body[1])

(* parse_data taking every 2xx status for a success.                       *)
parse_dataAny2xx(data) ==
    IF data = <<>>
    THEN [raised |-> AttributeError, ret |-> <<>>, decoded |-> FALSE]
    ELSE IF data[1].status_code >= 200 /\ data[1].status_code < 300
         THEN LET j == json(data[1])
              IN  [raised |-> j.raised, decoded |-> TRUE,
                   ret |-> IF j.raised = NoError THEN <<j.val>> ELSE <<>>]
         ELSE [raised |-> ValueError, ret |-> <<>>, decoded |-> FALSE]

(* parse_data(data).  `data` is <<>> for None.  `decoded` tells whether    *)
(* data.json() was called.                                                 *)
parse_data(data) ==
    IF data = <<>>
    THEN [raised |-> AttributeError, ret |-> <<>>, decoded |-> FALSE]
    ELSE IF data[1].status_code = StatusOK
         THEN LET j == json(data[1])
              IN  [raised |-> j.raised, decoded |-> TRUE,
                   ret |-> IF j.raised = NoError THEN <<j.val>> ELSE <<>>]
         ELSE [raised |-> ValueError, ret |-> <<>>, decoded |-> FALSE]

(* parse_data(get_data(ACCESSION, url)): the right-hand side of cells 4,   *)
(* 7 and 11.  `in` is the function the exception comes out of.             *)
FetchAndParse(url, net) ==
    LET g == get_data(ACCESSION, url, net)
        p == parse_data(g.ret)
        entry(decoded) == [url |-> url, kind |-> net.kind, body |-> net.body,
                           status_code |-> net.status_code, decoded |-> decoded]
    IN  IF g.raised # NoError
        THEN [raised |-> g.raised, in |-> "get_data", ret |-> <<>>,
              printed |-> g.printed, log |-> entry(FALSE)]
        ELSE [raised |-> p.raised, in |-> "parse_data", ret |-> p.ret,
              printed |-> g.printed, log |-> entry(p.decoded)]

(* doc.get(ACCESSION, {}).get("data", []): a default for a missing key.    *)
AccessionDataDefault(doc) ==
    IF ~HasKey(doc, ACCESSION) THEN Returned(<<>>)
    ELSE IF ~HasKey(doc[ACCESSION], "data") THEN Returned(<<>>)
    ELSE Returned(doc[ACCESSION]["data"])

(* doc[ACCESSION]["data"], the iterable of the three stage loops.          *)
AccessionData(doc) ==
    IF ~HasKey(doc, ACCESSION) THEN Raised(KeyError, <<>>)
    ELSE IF ~HasKey(doc[ACCESSION], "data") THEN Raised(KeyError, <<>>)
    ELSE Returned(doc[ACCESSION]["data"])

---------------------------------------------------------------------------
(* Stage 1, cell 5: all_predicted_ligand_binding_residues.                 *)

(* [x["startIndex"] for x in residues], from element i on.                 *)
RECURSIVE StartIndexes(_, _, _)
StartIndexes(residues, i, acc) ==
    IF i > Len(residues) THEN Returned(acc)
    ELSE IF ~HasKey(residues[i], "startIndex") THEN Raised(KeyError, acc)
    ELSE StartIndexes(residues, i + 1, Append(acc, residues[i]["startIndex"]))

(* The for loop over the provider records, from record i on; acc is the    *)
(* list built so far, which is what the name holds if the loop raises.     *)
RECURSIVE Stage1Loop(_, _, _)
Stage1Loop(data, i, acc) ==
    IF i > Len(data) THEN Returned(acc)
    ELSE LET provider_data == data[i]
         IN  IF ~HasKey(provider_data, "accession") THEN Raised(KeyError, acc)
             ELSE IF InList(provider_data["accession"], ProviderAllowlist)
                  THEN IF ~HasKey(provider_data, "residues") THEN Raised(KeyError, acc)
                       ELSE LET residues == StartIndexes(provider_data["residues"], 1, <<>>)
                            IN  IF residues.raised # NoError
                                THEN Raised(residues.raised, acc)
                                ELSE Stage1Loop(data, i + 1, acc \o residues.val)
                  ELSE Stage1Loop(data, i + 1, acc)

Stage1(doc) ==
    LET data == AccessionData(doc)
    IN  IF data.raised # NoError THEN Raised(data.raised, <<>>)
        ELSE Stage1Loop(data.val, 1, <<>>)

---------------------------------------------------------------------------
(* Cell 8: interaction_partner_names.                                      *)
RECURSIVE PartnerNamesLoop(_, _, _)
PartnerNamesLoop(data, i, acc) ==
    IF i > Len(data) THEN Returned(acc)
    ELSE IF ~HasKey(data[i], "name") THEN Raised(KeyError, acc)
    ELSE PartnerNamesLoop(data, i + 1, Append(acc, data[i]["name"]))

PartnerNames(doc) ==
    LET data == AccessionData(doc)
    IN  IF data.raised # NoError THEN Raised(data.raised, <<>>)
        ELSE PartnerNamesLoop(data.val, 1, <<>>)

---------------------------------------------------------------------------
(* Stage 2, cell 9: interface_residues_with_hirudin.                       *)

(* The comprehension taking an empty candidate list for "no filter".       *)
RECURSIVE InteractingResiduesEmptyMeansAll(_, _, _, _)
InteractingResiduesEmptyMeansAll(residues, candidates, i, acc) ==
    IF i > Len(residues) THEN Returned(acc)
    ELSE IF ~HasKey(residues[i], "startIndex") THEN Raised(KeyError, acc)
    ELSE IF candidates = <<>> \/ InList(residues[i]["startIndex"], candidates)
         THEN InteractingResiduesEmptyMeansAll(residues, candidates, i + 1,
                                               Append(acc, residues[i]["startIndex"]))
         ELSE InteractingResiduesEmptyMeansAll(residues, candidates, i + 1, acc)

(* The comprehension with its `if` clause left out.                        *)
RECURSIVE InteractingResiduesUnfiltered(_, _, _, _)
InteractingResiduesUnfiltered(residues, candidates, i, acc) ==
    IF i > Len(residues) THEN Returned(acc)
    ELSE IF ~HasKey(residues[i], "startIndex") THEN Raised(KeyError, acc)
    ELSE InteractingResiduesUnfiltered(residues, candidates, i + 1,
                                       Append(acc, residues[i]["startIndex"]))

(* The comprehension building a list without repeats.                      *)
RECURSIVE InteractingResiduesNoRepeat(_, _, _, _)
InteractingResiduesNoRepeat(residues, candidates, i, acc) ==
    IF i > Len(residues) THEN Returned(acc)
    ELSE IF ~HasKey(residues[i], "startIndex") THEN Raised(KeyError, acc)
    ELSE IF InList(residues[i]["startIndex"], candidates)
            /\ ~InList(residues[i]["startIndex"], acc)
         THEN InteractingResiduesNoRepeat(residues, candidates, i + 1,
                                          Append(acc, residues[i]["startIndex"]))
         ELSE InteractingResiduesNoRepeat(residues, candidates, i + 1, acc)

(* [x["startIndex"] for x in residues if x["startIndex"] in candidates],   *)
(* from element i on.                                                      *)
RECURSIVE InteractingResidues(_, _, _, _)
InteractingResidues(residues, candidates, i, acc) ==
    IF i > Len(residues) THEN Returned(acc)
    ELSE IF ~HasKey(residues[i], "startIndex") THEN Raised(KeyError, acc)
    ELSE IF InList(residues[i]["startIndex"], candidates)
         THEN InteractingResidues(residues, candidates, i + 1,
                                  Append(acc, residues[i]["startIndex"]))
         ELSE InteractingResidues(residues, candidates, i + 1, acc)

(* The comparison inverted: every record but the partner's.                *)
IsPartnerNot(name) == name # PartnerName

(* A match on any Hirudin, in place of the exact name.                     *)
IsPartnerAnyHirudin(name) ==
    name \in {"Hirudin variant-1", "Hirudin-2", "Hirudin variant-2 (Fragment)"}

(* item["name"] == "Hirudin variant-1"                                     *)
IsPartner(name) == name = PartnerName

RECURSIVE Stage2Loop(_, _, _, _)
Stage2Loop(data, candidates, i, acc) ==
    IF i > Len(data) THEN Returned(acc)
    ELSE LET item == data[i]
         IN  IF ~HasKey(item, "name") THEN Raised(KeyError, acc)
             ELSE IF IsPartner(item["name"])
                  THEN IF ~HasKey(item, "residues") THEN Raised(KeyError, acc)
                       ELSE LET interacting_residues ==
                                    InteractingResidues(item["residues"], candidates, 1, <<>>)
                            IN  IF interacting_residues.raised # NoError
                                THEN Raised(interacting_residues.raised, acc)
                                ELSE Stage2Loop(data, candidates, i + 1,
                                                acc \o interacting_residues.val)
                  ELSE Stage2Loop(data, candidates, i + 1, acc)

Stage2(doc, candidates) ==
    LET data == AccessionData(doc)
    IN  IF data.raised # NoError THEN Raised(data.raised, <<>>)
        ELSE Stage2Loop(data.val, candidates, 1, <<>>)

---------------------------------------------------------------------------
(* Stage 3, cell 12: ligand_list.                                          *)

(* The inner loop with the break one level out: it leaves after the first  *)
(* residue, found or not.                                                  *)
ResidueLoopBreakAlways(ligand, target, i, acc) ==
    IF i > Len(ligand["residues"]) THEN Returned(acc)
    ELSE LET residue == ligand["residues"][i]
         IN  IF ~HasKey(residue, "startIndex") THEN Raised(KeyError, acc)
             ELSE IF InList(residue["startIndex"], target)
                  THEN IF ~HasKey(ligand, "accession") THEN Raised(KeyError, acc)
                       ELSE Returned(Append(acc, ligand["accession"]))
                  ELSE Returned(acc)

(* The inner loop without the break: one append per residue found.         *)
RECURSIVE ResidueLoopNoBreak(_, _, _, _)
ResidueLoopNoBreak(ligand, target, i, acc) ==
    IF i > Len(ligand["residues"]) THEN Returned(acc)
    ELSE LET residue == ligand["residues"][i]
         IN  IF ~HasKey(residue, "startIndex") THEN Raised(KeyError, acc)
             ELSE IF InList(residue["startIndex"], target)
                  THEN IF ~HasKey(ligand, "accession") THEN Raised(KeyError, acc)
                       ELSE ResidueLoopNoBreak(ligand, target, i + 1,
                                               Append(acc, ligand["accession"]))
                  ELSE ResidueLoopNoBreak(ligand, target, i + 1, acc)

(* The inner for loop over one ligand's residues, from residue i on: the   *)
(* first residue found in the target list appends the ligand's accession   *)
(* and breaks.                                                             *)
RECURSIVE ResidueLoop(_, _, _, _)
ResidueLoop(ligand, target, i, acc) ==
    IF i > Len(ligand["residues"]) THEN Returned(acc)
    ELSE LET residue == ligand["residues"][i]
         IN  IF ~HasKey(residue, "startIndex") THEN Raised(KeyError, acc)
             ELSE IF InList(residue["startIndex"], target)
                  THEN IF ~HasKey(ligand, "accession") THEN Raised(KeyError, acc)
                       ELSE Returned(Append(acc, ligand["accession"]))
                  ELSE ResidueLoop(ligand, target, i + 1, acc)

RECURSIVE Stage3Loop(_, _, _, _)
Stage3Loop(data, target, i, acc) ==
    IF i > Len(data) THEN Returned(acc)
    ELSE LET ligand == data[i]
         IN  IF ~HasKey(ligand, "residues") THEN Raised(KeyError, acc)
             ELSE LET r == ResidueLoop(ligand, target, 1, acc)
                  IN  IF r.raised # NoError THEN r
                      ELSE Stage3Loop(data, target, i + 1, r.val)

Stage3(doc, target) ==
    LET data == AccessionData(doc)
    IN  IF data.raised # NoError THEN Raised(data.raised, <<>>)
        ELSE Stage3Loop(data.val, target, 1, <<>>)

---------------------------------------------------------------------------
(* The documents of the three endpoints.                                   *)
ResidueList(indexes) == [k \in 1..Len(indexes) |-> [startIndex |-> indexes[k]]]
ProviderRecord(accession, indexes) ==
    [accession |-> accession, residues |-> ResidueList(indexes)]
PartnerRecord(name, indexes) == [name |-> name, residues |-> ResidueList(indexes)]
LigandRecord(accession, indexes) ==
    [accession |-> accession, residues |-> ResidueList(indexes)]
Doc(records) == (ACCESSION :> [data |-> records])

StatusCodes == {200, 201, 404, 500}

(* What requests.get can do for an endpoint that serves one of `docs`: a   *)
(* transport exception, or a response with any status and a body that is   *)
(* one of the documents or not JSON at all.                                *)
NetOutcomes(docs) ==
    {[kind |-> "error", status_code |-> 0, body |-> <<>>]}
    \cup {[kind |-> "response", status_code |-> s, body |-> b] :
             s \in StatusCodes, b \in {<<d>> : d \in docs} \cup {<<>>}}

(* Documents without the accession key or without the "data" key.          *)
TopLevelBroken == {("Q99999" :> [data |-> <<>>]), (ACCESSION :> [length |-> 622])}

(* The documents of a full run: up to RunMaxRecords records drawn from     *)
(* three per endpoint, and documents with a key missing.                   *)
RunProviderRecords ==
    {ProviderRecord("p2rank", <<388, 406>>), ProviderRecord("cansar", <<406, 434>>),
     ProviderRecord("other", <<388, 541>>)}
RunAnnotationDocs ==
    {Doc(r) : r \in SeqsUpTo(RunProviderRecords, RunMaxRecords)}
    \cup TopLevelBroken
    \cup {Doc(<<[residues |-> ResidueList(<<388>>)]>>),
          Doc(<<ProviderRecord("cansar", <<406>>), [accession |-> "p2rank"]>>),
          Doc(<<[accession |-> "other"], ProviderRecord("p2rank", <<388, 406>>)>>),
          Doc(<<[accession |-> "cansar",
                 residues |-> <<[startIndex |-> 388], [endIndex |-> 406]>>]>>)}

RunPartnerRecords ==
    {PartnerRecord(PartnerName, <<388, 541, 406>>), PartnerRecord(PartnerName, <<434>>),
     PartnerRecord("Hirudin-2", <<406, 434>>)}
RunInteractionDocs ==
    {Doc(r) : r \in SeqsUpTo(RunPartnerRecords, RunMaxRecords)}
    \cup TopLevelBroken
    \cup {Doc(<<PartnerRecord(PartnerName, <<388>>), [residues |-> ResidueList(<<406>>)]>>),
          Doc(<<[name |-> PartnerName]>>),
          Doc(<<[name |-> "Hirudin-2"], PartnerRecord(PartnerName, <<406, 388>>)>>),
          Doc(<<[name |-> PartnerName,
                 residues |-> <<[startIndex |-> 406], [endIndex |-> 406]>>]>>)}

RunLigandRecords ==
    {LigandRecord("TYS", <<388, 406>>), LigandRecord("TYS", <<434>>),
     LigandRecord("MRD", <<541, 406>>)}
RunLigandDocs ==
    {Doc(r) : r \in SeqsUpTo(RunLigandRecords, RunMaxRecords)}
    \cup TopLevelBroken
    \cup {Doc(<<LigandRecord("TYS", <<406>>), [accession |-> "MRD"]>>),
          Doc(<<[residues |-> ResidueList(<<541, 406>>)]>>),
          Doc(<<[accession |-> "TYS",
                 residues |-> <<[startIndex |-> 406], [endIndex |-> 406]>>]>>),
          Doc(<<[accession |-> "MRD",
                 residues |-> <<[endIndex |-> 388], [startIndex |-> 388]>>]>>)}

(* The inputs of the stages taken alone: every document of up to           *)
(* MaxRecords records of up to MaxResidues residues, and the lists an      *)
(* earlier stage can hand over.                                            *)
Indexes == {388, 406}
IndexLists == SeqsUpTo(Indexes, MaxResidues)
Providers == {"p2rank", "cansar", "other"}
PartnerNames3 == {PartnerName, "Hirudin-2", "hirudin variant-1"}
LigandAccessions == {"TYS", "MRD"}
HandedOver == {<<>>, <<388>>, <<406>>, <<388, 406>>, <<406, 388, 406>>}

(* The notebook's recorded outputs of cells 6 and 10, and an interaction   *)
(* document that goes with them.                                           *)
ExamplePredicted ==
    <<136, 237, 246, 251, 265, 273, 324, 329, 330, 331, 332, 333, 334, 336, 372, 383,
      386, 388, 389, 390, 391, 396, 400, 406, 407, 410, 413, 414, 415, 417, 434, 436,
      459, 493, 506, 507, 510, 511, 530, 541, 549, 565, 566, 568, 572, 574, 585, 589,
      590, 591, 596, 597, 605, 613, 615, 617>>
ExampleInterface == <<388, 406, 434, 541, 565, 566, 568, 589, 591>>
ExampleInteractionsDoc ==
    Doc(<<PartnerRecord("Prothrombin", <<136, 237>>),
          PartnerRecord("Hirudin variant-1",
                        <<387, 388, 405, 406, 434, 435, 541, 565, 566, 567, 568, 589,
                          591, 592>>),
          PartnerRecord("Hirudin variant-2 (Fragment)", <<389, 390>>),
          PartnerRecord("Hirudin-2", <<391, 396>>)>>)

AnnotationDocs ==
    {Doc(r) : r \in SeqsUpTo({ProviderRecord(a, x) : a \in Providers, x \in IndexLists},
                             MaxRecords)}
InteractionDocs ==
    {Doc(r) : r \in SeqsUpTo({PartnerRecord(n, x) : n \in PartnerNames3, x \in IndexLists},
                             MaxRecords)}
LigandDocs ==
    {Doc(r) : r \in SeqsUpTo({LigandRecord(a, x) : a \in LigandAccessions, x \in IndexLists},
                             MaxRecords)}

---------------------------------------------------------------------------
(* The run: the code cells in document order.  pc is the cell to run next. *)
(* An exception that leaves a cell ends the run: the rest is not executed. *)
(* A run that goes on to the next cell after an exception.                 *)
PropagateContinue(next, raised) == next

Propagate(next, raised) == IF raised = NoError THEN next ELSE "failed"
FailureOf(cell, fn, raised) ==
    IF raised = NoError THEN <<>> ELSE <<[cell |-> cell, in |-> fn, error |-> raised]>>
Printed(cell, text) == [cell |-> cell, text |-> text]

(* annotations_data = parse_data(get_data(ACCESSION, ANNOTATIONS_URL))     *)
Cell4 ==
    /\ pc = "cell4"
    /\ \E net \in NetOutcomes(RunAnnotationDocs) :
          LET r == FetchAndParse(ANNOTATIONS_URL, net)
          IN  /\ http_log' = Append(http_log, r.log)
              /\ stdout' = stdout \o r.printed
              /\ annotations_data' = r.ret
              /\ pc' = Propagate("cell5", r.raised)
              /\ failure' = FailureOf("cell4", r.in, r.raised)
    /\ UNCHANGED <<all_predicted_ligand_binding_residues, interactions_data,
                   interaction_partner_names, interface_residues_with_hirudin,
                   ligands_data, ligand_list>>

Cell5 ==
    /\ pc = "cell5"
    /\ LET r == Stage1(annotations_data[1])
       IN  /\ all_predicted_ligand_binding_residues' = <<r.val>>
           /\ pc' = Propagate("cell6", r.raised)
           /\ failure' = FailureOf("cell5", "cell5", r.raised)
    /\ UNCHANGED <<http_log, stdout, annotations_data, interactions_data,
                   interaction_partner_names, interface_residues_with_hirudin,
                   ligands_data, ligand_list>>

(* print(all_predicted_ligand_binding_residues)                            *)
Cell6 ==
    /\ pc = "cell6"
    /\ stdout' = Append(stdout, Printed("cell6", all_predicted_ligand_binding_residues[1]))
    /\ pc' = "cell7"
    /\ UNCHANGED <<failure, http_log, annotations_data,
                   all_predicted_ligand_binding_residues, interactions_data,
                   interaction_partner_names, interface_residues_with_hirudin,
                   ligands_data, ligand_list>>

(* interactions_data = parse_data(get_data(ACCESSION, INTERACTIONS_URL))   *)
Cell7 ==
    /\ pc = "cell7"
    /\ \E net \in NetOutcomes(RunInteractionDocs) :
          LET r == FetchAndParse(INTERACTIONS_URL, net)
          IN  /\ http_log' = Append(http_log, r.log)
              /\ stdout' = stdout \o r.printed
              /\ interactions_data' = r.ret
              /\ pc' = Propagate("cell8", r.raised)
              /\ failure' = FailureOf("cell7", r.in, r.raised)
    /\ UNCHANGED <<annotations_data, all_predicted_ligand_binding_residues,
                   interaction_partner_names, interface_residues_with_hirudin,
                   ligands_data, ligand_list>>

(* The partner names are collected, then printed.                          *)
Cell8 ==
    /\ pc = "cell8"
    /\ LET r == PartnerNames(interactions_data[1])
       IN  /\ interaction_partner_names' = <<r.val>>
           /\ stdout' = IF r.raised = NoError
                        THEN Append(stdout, Printed("cell8", r.val)) ELSE stdout
           /\ pc' = Propagate("cell9", r.raised)
           /\ failure' = FailureOf("cell8", "cell8", r.raised)
    /\ UNCHANGED <<http_log, annotations_data, all_predicted_ligand_binding_residues,
                   interactions_data, interface_residues_with_hirudin,
                   ligands_data, ligand_list>>

(* Cell 9 extending the list of stage 1 in place of its own.               *)
Cell9ExtendsStage1 ==
    /\ pc = "cell9"
    /\ LET r == Stage2(interactions_data[1], all_predicted_ligand_binding_residues[1])
       IN  /\ interface_residues_with_hirudin' = <<<<>>>>
           /\ all_predicted_ligand_binding_residues'
                 = <<all_predicted_ligand_binding_residues[1] \o r.val>>
           /\ pc' = Propagate("cell10", r.raised)
           /\ failure' = FailureOf("cell9", "cell9", r.raised)
    /\ UNCHANGED <<http_log, stdout, annotations_data, interactions_data,
                   interaction_partner_names, ligands_data, ligand_list>>

Cell9 ==
    /\ pc = "cell9"
    /\ LET r == Stage2(interactions_data[1], all_predicted_ligand_binding_residues[1])
       IN  /\ interface_residues_with_hirudin' = <<r.val>>
           /\ pc' = Propagate("cell10", r.raised)
           /\ failure' = FailureOf("cell9", "cell9", r.raised)
    /\ UNCHANGED <<http_log, stdout, annotations_data,
                   all_predicted_ligand_binding_residues, interactions_data,
                   interaction_partner_names, ligands_data, ligand_list>>

(* print(interface_residues_with_hirudin)                                  *)
Cell10 ==
    /\ pc = "cell10"
    /\ stdout' = Append(stdout, Printed("cell10", interface_residues_with_hirudin[1]))
    /\ pc' = "cell11"
    /\ UNCHANGED <<failure, http_log, annotations_data,
                   all_predicted_ligand_binding_residues, interactions_data,
                   interaction_partner_names, interface_residues_with_hirudin,
                   ligands_data, ligand_list>>

(* ligands_data = parse_data(get_data(ACCESSION, LIGANDS_URL))             *)
Cell11 ==
    /\ pc = "cell11"
    /\ \E net \in NetOutcomes(RunLigandDocs) :
          LET r == FetchAndParse(LIGANDS_URL, net)
          IN  /\ http_log' = Append(http_log, r.log)
              /\ stdout' = stdout \o r.printed
              /\ ligands_data' = r.ret
              /\ pc' = Propagate("cell12", r.raised)
              /\ failure' = FailureOf("cell11", r.in, r.raised)
    /\ UNCHANGED <<annotations_data, all_predicted_ligand_binding_residues,
                   interactions_data, interaction_partner_names,
                   interface_residues_with_hirudin, ligand_list>>

Cell12 ==
    /\ pc = "cell12"
    /\ LET r == Stage3(ligands_data[1], interface_residues_with_hirudin[1])
       IN  /\ ligand_list' = <<r.val>>
           /\ pc' = Propagate("cell13", r.raised)
           /\ failure' = FailureOf("cell12", "cell12", r.raised)
    /\ UNCHANGED <<http_log, stdout, annotations_data,
                   all_predicted_ligand_binding_residues, interactions_data,
                   interaction_partner_names, interface_residues_with_hirudin,
                   ligands_data>>

(* print("There are %i ligands ..." % len(ligand_list))                    *)
Cell13 ==
    /\ pc = "cell13"
    /\ stdout' = Append(stdout, Printed("cell13", Len(ligand_list[1])))
    /\ pc' = "cell14"
    /\ UNCHANGED <<failure, http_log, annotations_data,
                   all_predicted_ligand_binding_residues, interactions_data,
                   interaction_partner_names, interface_residues_with_hirudin,
                   ligands_data, ligand_list>>

(* The heading, then print(ligand_list).                                   *)
Cell14 ==
    /\ pc = "cell14"
    /\ stdout' = stdout \o <<Printed("cell14", "heading"), Printed("cell14", ligand_list[1])>>
    /\ pc' = "done"
    /\ UNCHANGED <<failure, http_log, annotations_data,
                   all_predicted_ligand_binding_residues, interactions_data,
                   interaction_partner_names, interface_residues_with_hirudin,
                   ligands_data, ligand_list>>

(* The state after cells 1 to 3: the imports, the constants and the two    *)
(* helper functions are defined; nothing is fetched yet.                   *)
Init ==
    /\ pc = "cell4"
    /\ failure = <<>>
    /\ http_log = <<>>
    /\ stdout = <<>>
    /\ annotations_data = <<>>
    /\ all_predicted_ligand_binding_residues = <<>>
    /\ interactions_data = <<>>
    /\ interaction_partner_names = <<>>
    /\ interface_residues_with_hirudin = <<>>
    /\ ligands_data = <<>>
    /\ ligand_list = <<>>

Next ==
    \/ Cell4 \/ Cell5 \/ Cell6 \/ Cell7 \/ Cell8 \/ Cell9
    \/ Cell10 \/ Cell11 \/ Cell12 \/ Cell13 \/ Cell14

Spec == Init /\ [][Next]_vars

---------------------------------------------------------------------------
(* The earlier copy of the notebook (unnamed/part_000).  Its cells 1 to 8  *)
(* are those of example.ipynb.  Its cell 9 subscripts interactions_data    *)
(* with the name `accession` and filters on the name                       *)
(* `all_ligand_binding_residues`; no cell binds either name.               *)
NameErrorAccession == "NameError: name 'accession' is not defined"
NameErrorCandidates == "NameError: name 'all_ligand_binding_residues' is not defined"

(* The value a global name is bound to, <<>> when the name is unbound.     *)
Global(name) ==
    CASE name = "ACCESSION" -> <<ACCESSION>>
      [] name = "annotations_data" -> annotations_data
      [] name = "all_predicted_ligand_binding_residues" -> all_predicted_ligand_binding_residues
      [] name = "interactions_data" -> interactions_data
      [] name = "interaction_partner_names" -> interaction_partner_names
      [] name = "interface_residues_with_hirudin" -> interface_residues_with_hirudin
      [] name = "ligands_data" -> ligands_data
      [] name = "ligand_list" -> ligand_list
      [] OTHER -> <<>>

(* The list is bound to list() first; the loop header then reads           *)
(* `accession`.  Were both names bound, the cell would be stage 2 over     *)
(* them (the candidates' name is read at the first residue of a partner    *)
(* record; it is taken here as read on entry).                             *)
Cell9Part000 ==
    /\ pc = "cell9"
    /\ LET key == Global("accession")
           candidates == Global("all_ligand_binding_residues")
           r == IF key = <<>> THEN Raised(NameErrorAccession, <<>>)
                ELSE IF candidates = <<>> THEN Raised(NameErrorCandidates, <<>>)
                ELSE Stage2(interactions_data[1], candidates[1])
       IN  /\ interface_residues_with_hirudin' = <<r.val>>
           /\ pc' = Propagate("cell10", r.raised)
           /\ failure' = FailureOf("cell9", "cell9", r.raised)
    /\ UNCHANGED <<http_log, stdout, annotations_data,
                   all_predicted_ligand_binding_residues, interactions_data,
                   interaction_partner_names, ligands_data, ligand_list>>

(* Top to bottom from a fresh kernel; no run gets past cell 9, so the      *)
(* cells after it take no step.                                            *)
NextPart000 == Cell4 \/ Cell5 \/ Cell6 \/ Cell7 \/ Cell8 \/ Cell9Part000

SpecPart000 == Init /\ [][NextPart000]_vars

---------------------------------------------------------------------------
(* The stages taken alone.  Each specification starts where the run stands *)
(* just before the stage's cell, after fetches answered with status 200    *)
(* and well-formed documents, and runs that cell.                          *)
Fetched(url, doc) ==
    [url |-> url, kind |-> "response", body |-> <<doc>>, status_code |-> StatusOK,
     decoded |-> TRUE]
NamesOf(doc) == [k \in 1..Len(doc[ACCESSION]["data"]) |-> doc[ACCESSION]["data"][k]["name"]]

InitStage1 ==
    /\ pc = "cell5"
    /\ failure = <<>>
    /\ \E d \in AnnotationDocs :
          /\ http_log = <<Fetched(ANNOTATIONS_URL, d)>>
          /\ annotations_data = <<d>>
    /\ stdout = <<>>
    /\ all_predicted_ligand_binding_residues = <<>>
    /\ interactions_data = <<>>
    /\ interaction_partner_names = <<>>
    /\ interface_residues_with_hirudin = <<>>
    /\ ligands_data = <<>>
    /\ ligand_list = <<>>

SpecStage1 == InitStage1 /\ [][Cell5]_vars

(* Before cell 9: the candidate list is what stage 1 made of an annotation *)
(* document with one allowlisted record.                                   *)
InitStage2 ==
    /\ pc = "cell9"
    /\ failure = <<>>
    /\ \E candidates \in HandedOver \cup {ExamplePredicted} :
          /\ annotations_data = <<Doc(<<ProviderRecord("p2rank", candidates)>>)>>
          /\ all_predicted_ligand_binding_residues = <<candidates>>
          /\ \E d \in InteractionDocs \cup {ExampleInteractionsDoc} :
                /\ http_log = <<Fetched(ANNOTATIONS_URL,
                                         Doc(<<ProviderRecord("p2rank", candidates)>>)),
                                 Fetched(INTERACTIONS_URL, d)>>
                /\ interactions_data = <<d>>
                /\ interaction_partner_names = <<NamesOf(d)>>
                /\ stdout = <<Printed("cell6", candidates), Printed("cell8", NamesOf(d))>>
    /\ interface_residues_with_hirudin = <<>>
    /\ ligands_data = <<>>
    /\ ligand_list = <<>>

SpecStage2 == InitStage2 /\ [][Cell9]_vars

(* Before cell 12: the target list is what stages 1 and 2 made of one      *)
(* allowlisted record and one record of the partner with the same          *)
(* residues.                                                               *)
InitStage3 ==
    /\ pc = "cell12"
    /\ failure = <<>>
    /\ \E target \in HandedOver \cup {ExampleInterface} :
          /\ annotations_data = <<Doc(<<ProviderRecord("p2rank", target)>>)>>
          /\ all_predicted_ligand_binding_residues = <<target>>
          /\ interactions_data = <<Doc(<<PartnerRecord(PartnerName, target)>>)>>
          /\ interaction_partner_names = <<<<PartnerName>>>>
          /\ interface_residues_with_hirudin = <<target>>
          /\ stdout = <<Printed("cell6", target), Printed("cell8", <<PartnerName>>),
                        Printed("cell10", target)>>
          /\ \E d \in LigandDocs :
                /\ ligands_data = <<d>>
                /\ http_log = <<Fetched(ANNOTATIONS_URL,
                                         Doc(<<ProviderRecord("p2rank", target)>>)),
                                 Fetched(INTERACTIONS_URL,
                                         Doc(<<PartnerRecord(PartnerName, target)>>)),
                                 Fetched(LIGANDS_URL, d)>>
    /\ ligand_list = <<>>

SpecStage3 == InitStage3 /\ [][Cell12]_vars

---------------------------------------------------------------------------
(* What the claims are stated with.                                        *)

(* The total length of parts[1..i].                                        *)
RECURSIVE TotalLen(_, _)
TotalLen(parts, i) == IF i = 0 THEN 0 ELSE TotalLen(parts, i - 1) + Len(parts[i])

(* out is parts[1] \o ... \o parts[n], said position by position.          *)
IsConcatenation(out, parts) ==
    /\ Len(out) = TotalLen(parts, Len(parts))
    /\ \A i \in 1..Len(parts) : \A j \in 1..Len(parts[i]) :
          out[TotalLen(parts, i - 1) + j] = parts[i][j]

Occurrences(s, v) == Cardinality({k \in 1..Len(s) : s[k] = v})
IndexesOf(record) == [j \in 1..Len(record["residues"]) |-> record["residues"][j]["startIndex"]]
DataOf(bound) == bound[1][ACCESSION]["data"]

---------------------------------------------------------------------------
(* C1: after stage 1 (cell 5), all_predicted_ligand_binding_residues is    *)
(* the concatenation, in record order and residue order, of the            *)
(* startIndex of every residue of every record whose provider is p2rank    *)
(* or cansar; duplicates stay and other providers contribute nothing.      *)
C1_Stage1IsAllowlistedConcatenation ==
    pc = "cell6" =>
        LET data == DataOf(annotations_data)
            parts == [i \in 1..Len(data) |->
                         IF data[i]["accession"] \in {"p2rank", "cansar"}
                         THEN IndexesOf(data[i]) ELSE <<>>]
        IN  IsConcatenation(all_predicted_ligand_binding_residues[1], parts)

(* A cansar record with a repeated residue next to a record of another     *)
(* provider that has residues: the repeat is kept, the other is dropped.   *)
C1_Witness ==
    /\ pc = "cell6"
    /\ LET data == DataOf(annotations_data)
           out == all_predicted_ligand_binding_residues[1]
       IN  /\ Len(data) = 2
           /\ data[1]["accession"] = "other" /\ Len(data[1]["residues"]) > 0
           /\ data[2]["accession"] = "cansar" /\ IndexesOf(data[2]) = <<406, 406>>
           /\ out = <<406, 406>>

---------------------------------------------------------------------------
(* C2: after stage 2 (cell 9), every element of                            *)
(* interface_residues_with_hirudin is in the candidate list and is the     *)
(* startIndex of a residue of a record named exactly "Hirudin variant-1";  *)
(* records with any other name contribute nothing: no value occurs more    *)
(* often in the result than in the records with exactly that name.         *)
C2_Stage2Sound ==
    pc = "cell10" =>
        LET data == DataOf(interactions_data)
            out == interface_residues_with_hirudin[1]
            named == {i \in 1..Len(data) : data[i]["name"] = "Hirudin variant-1"}
            fromPartner(v) ==
                UNION {{<<i, j>> : j \in {j \in 1..Len(data[i]["residues"]) :
                                            data[i]["residues"][j]["startIndex"] = v}} :
                       i \in named}
        IN  \A k \in 1..Len(out) :
               /\ out[k] \in Range(all_predicted_ligand_binding_residues[1])
               /\ fromPartner(out[k]) # {}
               /\ Occurrences(out, out[k]) <= Cardinality(fromPartner(out[k]))

(* A "Hirudin variant-1" record and a "Hirudin-2" record, each with a      *)
(* candidate residue: only the first one's residue is in the result.       *)
C2_Witness ==
    /\ pc = "cell10"
    /\ LET data == DataOf(interactions_data)
       IN  /\ Len(data) = 2
           /\ data[1]["name"] = "Hirudin-2" /\ IndexesOf(data[1]) = <<406>>
           /\ data[2]["name"] = "Hirudin variant-1" /\ IndexesOf(data[2]) = <<388>>
    /\ all_predicted_ligand_binding_residues[1] = <<388, 406>>
    /\ interface_residues_with_hirudin[1] = <<388>>

---------------------------------------------------------------------------
(* C3: after stage 3 (cell 12), a ligand record contributes its accession  *)
(* to ligand_list if and only if at least one of its residues has a        *)
(* startIndex in the target list, and the entries come in the order of     *)
(* their records.                                                          *)
C3_Stage3ContributesIffOverlap ==
    pc = "cell13" =>
        LET data == DataOf(ligands_data)
            T == Range(interface_residues_with_hirudin[1])
            parts == [i \in 1..Len(data) |->
                         IF Range(IndexesOf(data[i])) \cap T # {}
                         THEN <<data[i]["accession"]>> ELSE <<>>]
        IN  IsConcatenation(ligand_list[1], parts)

(* A record with no residue, a record whose only match is its second       *)
(* residue: the second one alone is listed.                                *)
C3_Witness ==
    /\ pc = "cell13"
    /\ interface_residues_with_hirudin[1] = <<406>>
    /\ LET data == DataOf(ligands_data)
       IN  /\ Len(data) = 2
           /\ data[1]["accession"] = "TYS" /\ data[1]["residues"] = <<>>
           /\ data[2]["accession"] = "MRD" /\ IndexesOf(data[2]) = <<388, 406>>
    /\ ligand_list[1] = <<"MRD">>

---------------------------------------------------------------------------
(* C5: stage 3 lists a qualifying record once, however many of its         *)
(* residues are in the target list, and never merges records: the length   *)
(* of ligand_list is the number of qualifying records, and each accession  *)
(* occurs as often as there are qualifying records that carry it.          *)
C5_Stage3OncePerRecord ==
    pc = "cell13" =>
        LET data == DataOf(ligands_data)
            T == Range(interface_residues_with_hirudin[1])
            qualifying == {i \in 1..Len(data) :
                              \E j \in 1..Len(data[i]["residues"]) :
                                  data[i]["residues"][j]["startIndex"] \in T}
        IN  /\ Len(ligand_list[1]) = Cardinality(qualifying)
            /\ \A a \in {data[i]["accession"] : i \in 1..Len(data)} :
                  Occurrences(ligand_list[1], a)
                      = Cardinality({i \in qualifying : data[i]["accession"] = a})

(* Two records of the same accession, each with two residues in the        *)
(* target list: two entries, one per record.                               *)
C5_Witness ==
    /\ pc = "cell13"
    /\ interface_residues_with_hirudin[1] = <<388, 406>>
    /\ LET data == DataOf(ligands_data)
       IN  /\ Len(data) = 2
           /\ data[1] = LigandRecord("TYS", <<388, 406>>)
           /\ data[2] = LigandRecord("TYS", <<406, 406>>)
    /\ ligand_list[1] = <<"TYS", "TYS">>

---------------------------------------------------------------------------
(* C6: stage 2 is complete and keeps order: the result is, record by       *)
(* record for the records named "Hirudin variant-1", the startIndex of     *)
(* every residue that is in the candidate list, once per occurrence and    *)
(* in residue order.  For the notebook's own candidates (the output of     *)
(* cell 6) and a partner record holding the nine residues among others,    *)
(* the result is the output of cell 10.                                    *)
C6_Stage2CompleteInOrder ==
    pc = "cell10" =>
        LET data == DataOf(interactions_data)
            C == Range(all_predicted_ligand_binding_residues[1])
            IsCandidate(v) == v \in C
            parts == [i \in 1..Len(data) |->
                         IF data[i]["name"] = "Hirudin variant-1"
                         THEN SelectSeq(IndexesOf(data[i]), IsCandidate) ELSE <<>>]
        IN  /\ IsConcatenation(interface_residues_with_hirudin[1], parts)
            /\ interactions_data[1] = ExampleInteractionsDoc
               /\ all_predicted_ligand_binding_residues[1] = ExamplePredicted
               => interface_residues_with_hirudin[1]
                     = <<388, 406, 434, 541, 565, 566, 568, 589, 591>>

(* The worked example has run: the nine residues, in order.                *)
C6_Witness ==
    /\ pc = "cell10"
    /\ interactions_data[1] = ExampleInteractionsDoc
    /\ all_predicted_ligand_binding_residues[1] = ExamplePredicted
    /\ Len(interface_residues_with_hirudin[1]) = 9
    /\ interface_residues_with_hirudin[1][1] = 388
    /\ interface_residues_with_hirudin[1][9] = 591

---------------------------------------------------------------------------
(* C4: end to end, ligand_list holds, in record order, the accession of    *)
(* exactly the ligand records that have a residue whose startIndex is      *)
(* both a residue of a p2rank or cansar annotation record and a residue    *)
(* of an interaction record named "Hirudin variant-1".                     *)
C4_EndToEndIntersection ==
    pc \in {"cell13", "cell14", "done"} =>
        LET annotations == DataOf(annotations_data)
            interactions == DataOf(interactions_data)
            ligands == DataOf(ligands_data)
            predicted == UNION {Range(IndexesOf(annotations[i])) :
                                   i \in {i \in 1..Len(annotations) :
                                             annotations[i]["accession"] \in {"p2rank", "cansar"}}}
            interface == UNION {Range(IndexesOf(interactions[i])) :
                                   i \in {i \in 1..Len(interactions) :
                                             interactions[i]["name"] = "Hirudin variant-1"}}
            binds(i) == \E j \in 1..Len(ligands[i]["residues"]) :
                            /\ HasKey(ligands[i]["residues"][j], "startIndex")
                            /\ ligands[i]["residues"][j]["startIndex"] \in predicted \cap interface
            parts == [i \in 1..Len(ligands) |->
                         IF binds(i) THEN <<ligands[i]["accession"]>> ELSE <<>>]
        IN  IsConcatenation(ligand_list[1], parts)

(* A finished run where one ligand binds at a residue that is predicted    *)
(* and at the interface, and another only at predicted residues that are   *)
(* not at the interface: the first alone is listed.                        *)
C4_Witness ==
    /\ pc = "done"
    /\ all_predicted_ligand_binding_residues[1] = <<388, 406, 406, 434>>
    /\ interface_residues_with_hirudin[1] = <<434>>
    /\ DataOf(ligands_data) = <<LigandRecord("TYS", <<388, 406>>), LigandRecord("TYS", <<434>>)>>
    /\ ligand_list[1] = <<"TYS">>

---------------------------------------------------------------------------
(* C7: parse_data returns the decoded document only for status 200; for    *)
(* any other status it raises 'No data received' without decoding, the     *)
(* error leaves the cell and ends the run, and no URL is fetched twice.    *)
FetchedInto(url) ==
    CASE url = ANNOTATIONS_URL -> [cell |-> "cell4", name |-> annotations_data]
      [] url = INTERACTIONS_URL -> [cell |-> "cell7", name |-> interactions_data]
      [] url = LIGANDS_URL -> [cell |-> "cell11", name |-> ligands_data]

C7_ParseDataOnly200 ==
    /\ \A k \in 1..Len(http_log) :
          LET e == http_log[k]
              into == FetchedInto(e.url)
          IN  /\ e.kind = "response" /\ e.status_code = 200 /\ e.body # <<>>
                 => e.decoded /\ into.name = e.body
              /\ e.kind = "response" /\ e.status_code # 200
                 => /\ ~e.decoded
                    /\ into.name = <<>>
                    /\ k = Len(http_log)
                    /\ pc = "failed"
                    /\ failure = <<[cell |-> into.cell, in |-> "parse_data",
                                    error |-> "ValueError: No data received"]>>
              /\ \A m \in 1..Len(http_log) : m # k => http_log[m].url # e.url
    /\ \A url \in {ANNOTATIONS_URL, INTERACTIONS_URL, LIGANDS_URL} :
          FetchedInto(url).name # <<>>
          => \E k \in 1..Len(http_log) :
                http_log[k].url = url /\ http_log[k].status_code = 200

(* The second fetch answered 201 with a JSON body: raised, not decoded.    *)
C7_Witness ==
    /\ Len(http_log) = 2
    /\ http_log[2].status_code = 201
    /\ http_log[2].body # <<>>
    /\ ~http_log[2].decoded
    /\ failure # <<>>
    /\ failure[1].error = "ValueError: No data received"

---------------------------------------------------------------------------
(* C8: a transport error of the GET is handled inside get_data: the        *)
(* message is printed, get_data returns None, and the run fails only       *)
(* downstream of get_data.                                                 *)
C8_TransportErrorHandledInGetData ==
    \A k \in 1..Len(http_log) :
        http_log[k].kind = "error"
        => /\ \E m \in 1..Len(stdout) :
                 stdout[m] = [cell |-> "get_data",
                              text |-> "There was an error while retrieving the data"]
           /\ failure # <<>>
           /\ failure[1]["in"] # "get_data"

---------------------------------------------------------------------------
(* C9: a stage that looks up an absent key (the accession, "data",         *)
(* "accession", "name", "residues" or "startIndex") fails with a           *)
(* key-lookup error that leaves the stage; none catches it or goes on      *)
(* with a default.  The keys a stage looks up are said here from the       *)
(* document alone: stage 1 reads "accession" of every record and, for the  *)
(* allowlisted ones, "residues" and every "startIndex"; cell 8 reads       *)
(* every "name"; stage 2 reads every "name" and, for the partner's         *)
(* records, "residues" and every "startIndex"; stage 3 reads "residues"    *)
(* of every record, "startIndex" up to the record's first residue in the   *)
(* target list, and "accession" of a record that has one.                  *)
TopKeyAbsent(doc) == ACCESSION \notin DOMAIN doc \/ "data" \notin DOMAIN doc[ACCESSION]

Stage1KeyAbsent(doc) ==
    \/ TopKeyAbsent(doc)
    \/ \E i \in 1..Len(doc[ACCESSION]["data"]) :
          LET r == doc[ACCESSION]["data"][i]
          IN  \/ "accession" \notin DOMAIN r
              \/ /\ r["accession"] \in {"p2rank", "cansar"}
                 /\ \/ "residues" \notin DOMAIN r
                    \/ \E j \in 1..Len(r["residues"]) : "startIndex" \notin DOMAIN r["residues"][j]

Cell8KeyAbsent(doc) ==
    \/ TopKeyAbsent(doc)
    \/ \E i \in 1..Len(doc[ACCESSION]["data"]) : "name" \notin DOMAIN doc[ACCESSION]["data"][i]

Stage2KeyAbsent(doc) ==
    \/ TopKeyAbsent(doc)
    \/ \E i \in 1..Len(doc[ACCESSION]["data"]) :
          LET r == doc[ACCESSION]["data"][i]
          IN  \/ "name" \notin DOMAIN r
              \/ /\ r["name"] = "Hirudin variant-1"
                 /\ \/ "residues" \notin DOMAIN r
                    \/ \E j \in 1..Len(r["residues"]) : "startIndex" \notin DOMAIN r["residues"][j]

Stage3KeyAbsent(doc, T) ==
    \/ TopKeyAbsent(doc)
    \/ \E i \in 1..Len(doc[ACCESSION]["data"]) :
          LET r == doc[ACCESSION]["data"][i]
          IN  \/ "residues" \notin DOMAIN r
              \/ \E j \in 1..Len(r["residues"]) :
                    /\ \A m \in 1..(j - 1) :
                          /\ "startIndex" \in DOMAIN r["residues"][m]
                          /\ r["residues"][m]["startIndex"] \notin T
                    /\ \/ "startIndex" \notin DOMAIN r["residues"][j]
                       \/ /\ r["residues"][j]["startIndex"] \in T
                          /\ "accession" \notin DOMAIN r

KeyErrorIn(cell) == <<[cell |-> cell, in |-> cell, error |-> "KeyError"]>>

C9_AbsentKeyRaisesKeyError ==
    /\ all_predicted_ligand_binding_residues # <<>>
       => (Stage1KeyAbsent(annotations_data[1]) <=> failure = KeyErrorIn("cell5"))
    /\ interaction_partner_names # <<>>
       => (Cell8KeyAbsent(interactions_data[1]) <=> failure = KeyErrorIn("cell8"))
    /\ interface_residues_with_hirudin # <<>>
       => (Stage2KeyAbsent(interactions_data[1]) <=> failure = KeyErrorIn("cell9"))
    /\ ligand_list # <<>>
       => (Stage3KeyAbsent(ligands_data[1], Range(interface_residues_with_hirudin[1]))
           <=> failure = KeyErrorIn("cell12"))
    /\ \A cell \in {"cell5", "cell8", "cell9", "cell12"} :
          failure = KeyErrorIn(cell)
          => /\ pc = "failed"
             /\ \A m \in 1..Len(stdout) : stdout[m].cell # cell

(* Stage 3 has met a ligand record that has a residue in the target list   *)
(* and no "accession": the run has failed there and lists nothing for it.  *)
C9_Witness ==
    /\ failure = KeyErrorIn("cell12")
    /\ pc = "failed"
    /\ ~TopKeyAbsent(ligands_data[1])
    /\ \E i \in 1..Len(DataOf(ligands_data)) : "accession" \notin DOMAIN DataOf(ligands_data)[i]
    /\ ligand_list = <<<<>>>>

---------------------------------------------------------------------------
(* C10: a failure ends the run.  Once a fetch, a parse or a lookup has     *)
(* failed in a cell, no later cell has run: the names later cells bind     *)
(* are unbound, nothing of that cell or a later one is printed, and no     *)
(* later URL is fetched.  The ligand count and list are printed only in    *)
(* runs whose three fetches were answered 200 and decoded and whose        *)
(* stages all completed.                                                   *)
CellNumber(cell) ==
    CASE cell = "cell4" -> 4 [] cell = "cell5" -> 5 [] cell = "cell6" -> 6
      [] cell = "cell7" -> 7 [] cell = "cell8" -> 8 [] cell = "cell9" -> 9
      [] cell = "cell10" -> 10 [] cell = "cell11" -> 11 [] cell = "cell12" -> 12
      [] cell = "cell13" -> 13 [] cell = "cell14" -> 14 [] cell = "get_data" -> 0

C10_FailureIsTerminal ==
    /\ failure # <<>> <=> pc = "failed"
    /\ failure # <<>> =>
          LET c == CellNumber(failure[1].cell)
          IN  /\ c <= 4 => annotations_data = <<>>
              /\ c < 5 => all_predicted_ligand_binding_residues = <<>>
              /\ c <= 7 => interactions_data = <<>>
              /\ c < 8 => interaction_partner_names = <<>>
              /\ c < 9 => interface_residues_with_hirudin = <<>>
              /\ c <= 11 => ligands_data = <<>>
              /\ c < 12 => ligand_list = <<>>
              /\ \A m \in 1..Len(stdout) : CellNumber(stdout[m].cell) < c
              /\ Len(http_log) = Cardinality({n \in {4, 7, 11} : n <= c})
    /\ (\E m \in 1..Len(stdout) : stdout[m].cell \in {"cell13", "cell14"})
       => /\ failure = <<>>
          /\ Len(http_log) = 3
          /\ \A k \in 1..3 : /\ http_log[k].kind = "response"
                             /\ http_log[k].status_code = 200
                             /\ http_log[k].decoded
          /\ annotations_data # <<>> /\ interactions_data # <<>> /\ ligands_data # <<>>
          /\ all_predicted_ligand_binding_residues # <<>>
          /\ interface_residues_with_hirudin # <<>>
          /\ ligand_list # <<>>
          /\ ~Stage1KeyAbsent(annotations_data[1])
          /\ ~Stage2KeyAbsent(interactions_data[1])
          /\ ~Stage3KeyAbsent(ligands_data[1], Range(interface_residues_with_hirudin[1]))

(* The second fetch has failed after stage 1 completed: the run stands     *)
(* there, with the output of cell 6 and nothing more.                      *)
C10_Witness ==
    /\ pc = "failed"
    /\ failure # <<>>
    /\ failure[1].cell = "cell7"
    /\ all_predicted_ligand_binding_residues = <<<<388, 406>>>>
    /\ Len(stdout) = 1
    /\ interface_residues_with_hirudin = <<>>
    /\ ligand_list = <<>>

---------------------------------------------------------------------------
(* The documents whose keys are all there: the accession, "data", and in   *)
(* every record the naming key and "residues" with every "startIndex".     *)
WellFormed(doc, naming) ==
    /\ ~TopKeyAbsent(doc)
    /\ \A i \in 1..Len(doc[ACCESSION]["data"]) :
          LET r == doc[ACCESSION]["data"][i]
          IN  /\ naming \in DOMAIN r
              /\ "residues" \in DOMAIN r
              /\ \A j \in 1..Len(r["residues"]) : "startIndex" \in DOMAIN r["residues"][j]

FailedIn(cell) == failure # <<>> /\ failure[1].cell = cell

(* C11: the all-empty path.  When no annotation record has the provider    *)
(* p2rank or cansar, stage 1 gives the empty list; stage 2 then gives the  *)
(* empty list for every interaction document, a record of the partner      *)
(* included; stage 3 then gives the empty list for every ligand document;  *)
(* the count printed is 0; and none of the three stages raises.            *)
C11_AllEmptyPath ==
    (/\ annotations_data # <<>>
     /\ WellFormed(annotations_data[1], "accession")
     /\ \A i \in 1..Len(DataOf(annotations_data)) :
           DataOf(annotations_data)[i]["accession"] \notin {"p2rank", "cansar"})
    => /\ all_predicted_ligand_binding_residues # <<>>
          => all_predicted_ligand_binding_residues = <<<<>>>> /\ ~FailedIn("cell5")
       /\ interface_residues_with_hirudin # <<>>
          => /\ interface_residues_with_hirudin = <<<<>>>>
             /\ WellFormed(interactions_data[1], "name") => ~FailedIn("cell9")
       /\ ligand_list # <<>>
          => /\ ligand_list = <<<<>>>>
             /\ WellFormed(ligands_data[1], "accession") => ~FailedIn("cell12")
       /\ \A m \in 1..Len(stdout) : stdout[m].cell = "cell13" => stdout[m].text = 0

(* A finished run: the only annotation record is of another provider, the  *)
(* partner's record and a ligand record share its residue 388, and the     *)
(* three lists are empty, the count 0.                                     *)
C11_Witness ==
    /\ pc = "done"
    /\ DataOf(annotations_data) = <<ProviderRecord("other", <<388, 541>>)>>
    /\ DataOf(interactions_data) = <<PartnerRecord("Hirudin variant-1", <<388, 541, 406>>)>>
    /\ DataOf(ligands_data) = <<LigandRecord("TYS", <<388, 406>>)>>
    /\ all_predicted_ligand_binding_residues = <<<<>>>>
    /\ interface_residues_with_hirudin = <<<<>>>>
    /\ ligand_list = <<<<>>>>
    /\ stdout[4] = [cell |-> "cell13", text |-> 0]

---------------------------------------------------------------------------
(* C12: when no interaction record is named "Hirudin variant-1", stage 2   *)
(* gives the empty list and raises nothing, whatever the candidate list    *)
(* holds, and stage 3 then gives the empty ligand list.                    *)
C12_NoPartnerRecord ==
    (/\ interface_residues_with_hirudin # <<>>
     /\ \A i \in 1..Len(DataOf(interactions_data)) :
           DataOf(interactions_data)[i]["name"] # "Hirudin variant-1")
    => /\ interface_residues_with_hirudin = <<<<>>>>
       /\ ~FailedIn("cell9")
       /\ ligand_list # <<>> /\ WellFormed(ligands_data[1], "accession")
          => ligand_list = <<<<>>>> /\ ~FailedIn("cell12")

(* A finished run: candidates 406 and 434, a "Hirudin-2" record holding    *)
(* both, a ligand at 434, and nothing at the interface, no ligand.         *)
C12_Witness ==
    /\ pc = "done"
    /\ all_predicted_ligand_binding_residues = <<<<406, 434>>>>
    /\ DataOf(interactions_data) = <<PartnerRecord("Hirudin-2", <<406, 434>>)>>
    /\ DataOf(ligands_data) = <<LigandRecord("TYS", <<434>>)>>
    /\ interface_residues_with_hirudin = <<<<>>>>
    /\ ligand_list = <<<<>>>>

---------------------------------------------------------------------------
(* C14: the run is strictly sequential: fetch and parse annotations,       *)
(* stage 1, fetch and parse interactions, stage 2, fetch and parse         *)
(* ligands, stage 3, report.  Every step goes to the next cell in          *)
(* document order or ends the run; stage 2 starts with stage 1's list      *)
(* bound and stage 3 with stage 2's; a name once bound (a fetched          *)
(* document or a stage's list) is never changed by a later step, so each   *)
(* stage reads the final value of the one before it.                       *)
CellOrder == <<"cell4", "cell5", "cell6", "cell7", "cell8", "cell9", "cell10",
               "cell11", "cell12", "cell13", "cell14", "done">>
IsPrefix(s, t) == Len(s) <= Len(t) /\ \A k \in 1..Len(s) : s[k] = t[k]
KeepsOnceBound(old, new) == old # <<>> => new = old

C14_StrictlySequential ==
    /\ [](/\ IsPrefix([k \in 1..Len(http_log) |-> http_log[k].url],
                      <<ANNOTATIONS_URL, INTERACTIONS_URL, LIGANDS_URL>>)
          /\ IsPrefix([k \in 1..Len(stdout) |-> stdout[k].cell],
                      <<"cell6", "cell8", "cell10", "cell13", "cell14", "cell14">>)
          /\ pc = "cell5" => annotations_data # <<>>
          /\ pc = "cell9" => /\ all_predicted_ligand_binding_residues # <<>>
                             /\ interactions_data # <<>>
                             /\ Len(http_log) = 2
          /\ pc = "cell12" => /\ interface_residues_with_hirudin # <<>>
                              /\ ligands_data # <<>>
                              /\ Len(http_log) = 3
          /\ pc \in {"cell10", "cell11", "cell12", "cell13", "cell14", "done"}
             => Range(interface_residues_with_hirudin[1])
                   \subseteq Range(all_predicted_ligand_binding_residues[1]))
    /\ [][/\ pc' # pc
             => \/ pc' = "failed"
                \/ \E k \in 1..(Len(CellOrder) - 1) : CellOrder[k] = pc /\ CellOrder[k + 1] = pc'
          /\ KeepsOnceBound(annotations_data, annotations_data')
          /\ KeepsOnceBound(all_predicted_ligand_binding_residues,
                            all_predicted_ligand_binding_residues')
          /\ KeepsOnceBound(interactions_data, interactions_data')
          /\ KeepsOnceBound(interaction_partner_names, interaction_partner_names')
          /\ KeepsOnceBound(interface_residues_with_hirudin, interface_residues_with_hirudin')
          /\ KeepsOnceBound(ligands_data, ligands_data')
          /\ KeepsOnceBound(ligand_list, ligand_list')]_vars

(* A run that went through every cell: three fetches in order, the five    *)
(* reports in order, and a ligand listed from the lists of both stages.    *)
C14_Witness ==
    /\ pc = "done"
    /\ Len(http_log) = 3
    /\ Len(stdout) = 6
    /\ all_predicted_ligand_binding_residues = <<<<388, 406>>>>
    /\ interface_residues_with_hirudin = <<<<388, 406>>>>
    /\ ligand_list = <<<<"TYS">>>>

---------------------------------------------------------------------------
(* C15: a top-to-bottom run from a fresh state whose fetches are all       *)
(* answered 200 with documents that have the accession, "data" and the     *)
(* nested keys raises nothing: every name a cell reads was bound by an     *)
(* earlier cell under that name.                                           *)
C15_WellServedRunRaisesNothing ==
    (/\ \A k \in 1..Len(http_log) :
           /\ http_log[k].kind = "response"
           /\ http_log[k].status_code = 200
           /\ http_log[k].body # <<>>
     /\ annotations_data # <<>> => WellFormed(annotations_data[1], "accession")
     /\ interactions_data # <<>> => WellFormed(interactions_data[1], "name")
     /\ ligands_data # <<>> => WellFormed(ligands_data[1], "accession"))
    => failure = <<>>

---------------------------------------------------------------------------
(* C16: the lists handed from stage 1 to stage 2 and from stage 2 to       *)
(* stage 3 act as sets.  Stage 2 (stage 3) run on any list with the same   *)
(* members as the candidate (target) list, deduplicated, reordered or      *)
(* with a repeat added, gives the list the run has: a repeat in an         *)
(* earlier stage's output adds no entry to a later stage's.  Each stage is *)
(* compared in the state its cell leaves; no later cell rebinds the lists. *)
SameMembers(list) ==
    {s \in SeqsUpTo(Range(list), Cardinality(Range(list)) + 1) : Range(s) = Range(list)}

C16_HandedOverListsActAsSets ==
    /\ pc = "cell10"
       => \A s \in SameMembers(all_predicted_ligand_binding_residues[1]) :
             Stage2(interactions_data[1], s)
                = [raised |-> "none", val |-> interface_residues_with_hirudin[1]]
    /\ pc = "cell13"
       => \A s \in SameMembers(interface_residues_with_hirudin[1]) :
             Stage3(ligands_data[1], s) = [raised |-> "none", val |-> ligand_list[1]]

(* Stage 3 has just run: stage 1 repeated 406, stage 2 repeated 388 and    *)
(* 406, and the ligand at those residues is listed once.                   *)
C16_Witness ==
    /\ pc = "cell13"
    /\ all_predicted_ligand_binding_residues = <<<<388, 406, 406, 434>>>>
    /\ interface_residues_with_hirudin = <<<<388, 406, 388, 406>>>>
    /\ DataOf(ligands_data) = <<LigandRecord("TYS", <<388, 406>>)>>
    /\ ligand_list = <<<<"TYS">>>>

====
